---- MODULE Spec2Model ----
(***************************************************************************)
(* External project access scanner of forseti-security: the rule book and  *)
(* its validation, the rules engine's find_policy_violations, and the      *)
(* scanner's retrieve / evaluate / output run with its ancestry cache.     *)
(*                                                                         *)
(* Python strings are sequences of one-character strings, so that the      *)
(* regular expression, split and join act on characters.                   *)
(***************************************************************************)
EXTENDS Integers, Sequences, FiniteSets, TLC

VARIABLES
    rules_file,   \* what _load_rule_definitions() returns for the rules file
    rule_book,    \* ExternalProjectAccessRulesEngine.rule_book
    applied,      \* history: the (rule_def, rule_index) add_rule accepted into rule_book
    call,         \* the last call made on the engine / rule book, with its arguments
    raised,       \* the exception that call propagated ("none" when it returned)
    result,       \* what that call returned
    previous,     \* history: the outcome of the find_policy_violations call before it
    arg_member,   \* the identity the caller evaluates
    arg_chain,    \* the ancestry chain the caller evaluates
    arg_ancestor, \* the ancestor value handed to validate_ancestor / process_rule
    arg_index,    \* the rule index handed with it
    phase,        \* where run() is: retrieve, evaluate, output, done, aborted
    inventory,    \* the identities the inventory iteration has yet to yield
    cur,          \* the _project_ancestries_by_user call in progress
    _ancestries,  \* Scanner._ancestries: project id -> ancestry list
    by_user,      \* project_ancestries_by_user: identity -> list of ancestry lists
    eval_queue,   \* the (identity, ancestry list) pairs _find_violations has yet to visit
    all_violations, \* the list _find_violations accumulates
    sink,         \* what _output_results_to_db was handed, one entry per write
    lookups,      \* history: get_project_ancestry invocations per project id
    skipped,      \* history: identities whose resolution raised KeyError / RefreshError
    enumerated,   \* history: the identities the inventory yielded, in order, each
                  \* with the exception its resolution raised
    threads       \* concurrent _project_ancestries_by_user calls, one per thread

engine_vars == <<rules_file, rule_book, applied, call, raised, result, previous,
                 arg_member, arg_chain, arg_ancestor, arg_index>>

scan_vars == <<phase, inventory, cur, _ancestries, by_user, eval_queue,
               all_violations, sink, lookups, skipped, enumerated>>

vars == <<engine_vars, scan_vars, threads>>

-----------------------------------------------------------------------------
(* Bounds of the model.                                                    *)

MaxDefs == 2      \* rule definitions in a rules file / add_rule calls on a book
MaxChain == 2     \* resources in an ancestry chain handed to the engine
MaxDigits == 2    \* characters after the '/' of a generated ancestor string

-----------------------------------------------------------------------------
(* Strings.                                                                *)

ORGANIZATIONS == <<"o","r","g","a","n","i","z","a","t","i","o","n","s">>
FOLDERS == <<"f","o","l","d","e","r","s">>
ORGANIZATION == <<"o","r","g","a","n","i","z","a","t","i","o","n">>
FOLDER == <<"f","o","l","d","e","r">>
PROJECT == <<"p","r","o","j","e","c","t">>
POLICY == <<"p","o","l","i","c","y">>
SLASH == <<"/">>
NEWLINE == <<"\n">>
COMMA == <<",">>

Digits == {"0", "1", "2", "3", "4", "5", "6", "7", "8", "9"}

StartsWith(s, p) == Len(s) >= Len(p) /\ SubSeq(s, 1, Len(p)) = p

Drop(s, n) == SubSeq(s, n + 1, Len(s))

\* str.split(sep) for a one-character separator: the pieces between separators
RECURSIVE SplitFrom(_, _, _)
SplitFrom(s, sep, piece) ==
    IF s = <<>> THEN <<piece>>
    ELSE IF Head(s) = sep THEN <<piece>> \o SplitFrom(Tail(s), sep, <<>>)
    ELSE SplitFrom(Tail(s), sep, Append(piece, Head(s)))

Split(s, sep) == SplitFrom(s, sep, <<>>)

\* sep.join(parts)
RECURSIVE Join(_, _)
Join(sep, parts) ==
    IF parts = <<>> THEN <<>>
    ELSE IF Len(parts) = 1 THEN parts[1]
    ELSE parts[1] \o sep \o Join(sep, Tail(parts))

-----------------------------------------------------------------------------
(* Values a rule definition's 'ancestor' can hold.                         *)

NoneValue == [kind |-> "None", s |-> <<>>, n |-> 0]   \* key missing, or null
StrValue(s) == [kind |-> "str", s |-> s, n |-> 0]
IntValue(n) == [kind |-> "int", s |-> <<>>, n |-> n]  \* a YAML number

\* Python truthiness of the value
Truthy(v) ==
    CASE v.kind = "None" -> FALSE
      [] v.kind = "str" -> v.s # <<>>
      [] OTHER -> v.n # 0

-----------------------------------------------------------------------------
(* ExternalProjectAccessRuleBook.ancestor_pattern and validate_ancestor.   *)

\* '^' literal '/' \d+ '$' under re.match: '$' matches at the end of the
\* string and also just before a newline that ends the string
MatchesAlternative(s, literal) ==
    /\ StartsWith(s, literal \o SLASH)
    /\ \E k \in 1..Len(s) :
          /\ Len(literal) + 1 + k <= Len(s)
          /\ \A j \in 1..k : s[Len(literal) + 1 + j] \in Digits
          /\ LET rest == Drop(s, Len(literal) + 1 + k)
             IN  rest = <<>> \/ rest = NEWLINE

ancestor_pattern_match(s) ==
    MatchesAlternative(s, ORGANIZATIONS) \/ MatchesAlternative(s, FOLDERS)

NoError == [exc |-> "none", text |-> "", index |-> -1]
InvalidRulesSchemaError(text, index) ==
    [exc |-> "InvalidRulesSchemaError", text |-> text, index |-> index]
TypeError == [exc |-> "TypeError", text |-> "", index |-> -1]
IndexError == [exc |-> "IndexError", text |-> "", index |-> -1]

validate_ancestor(ancestor, rule_index) ==
    IF ~Truthy(ancestor)
    THEN InvalidRulesSchemaError("Missing ancestor in rule", rule_index)
    ELSE IF ancestor.kind # "str"
    THEN TypeError                      \* len() / pattern.match() of a number
    ELSE IF ~ancestor_pattern_match(ancestor.s)
    THEN InvalidRulesSchemaError("must start with", rule_index)
    ELSE NoError

-----------------------------------------------------------------------------
(* Resources (common.gcp_type.resource, resource_util).                    *)

\* Resource.name: the resource type, a slash and the id
ResourceName(type, id) == type \o SLASH \o id

create_resource(resource_id, resource_type) ==
    [type |-> resource_type, id |-> resource_id,
     name |-> ResourceName(resource_type, resource_id)]

\* Resource.__eq__: same type and same id
ResourceEq(a, b) == a.type = b.type /\ a.id = b.id

\* x in list, for a list of resources
InChain(x, chain) == \E i \in 1..Len(chain) : ResourceEq(chain[i], x)

\* the resource type a resource name starts with
type_from_name(name) ==
    IF StartsWith(name, ORGANIZATIONS) THEN ORGANIZATION
    ELSE IF StartsWith(name, FOLDERS) THEN FOLDER
    ELSE PROJECT

-----------------------------------------------------------------------------
(* Rule and ExternalProjectAccessRuleBook.                                 *)

Rule(rule_name, rule_index, rules) ==
    [rule_name |-> rule_name, rule_index |-> rule_index, rules |-> rules]

\* process_rule: the exception validate_ancestor raises, or the ancestor
process_rule(rule_def, rule_index) ==
    LET ancestor == rule_def.ancestor
        err == validate_ancestor(ancestor, rule_index)
    IN  IF err # NoError
        THEN [exc |-> err, ancestor |-> create_resource(<<>>, PROJECT)]
        ELSE [exc |-> NoError,
              ancestor |-> create_resource(Split(ancestor.s, "/")[2],
                                           type_from_name(ancestor.s))]

\* keys of resource_rules_map that equal the ancestor
HasKey(map, ancestor) == \E e \in map : ResourceEq(e.rules, ancestor)

\* faulty variant, for mutation checks: a later definition replaces the stored rule
add_rule_last_wins(map, rule_def, rule_index) ==
    LET p == process_rule(rule_def, rule_index)
        rule == Rule(rule_def.name, rule_index, p.ancestor)
    IN  IF p.exc # NoError THEN [exc |-> p.exc, map |-> map, added |-> FALSE]
        ELSE [exc |-> NoError,
              map |-> {e \in map : ~ResourceEq(e.rules, p.ancestor)} \cup {rule},
              added |-> TRUE]

\* add_rule on a resource_rules_map (the set of its rules, each keyed by
\* its own ancestor, rule.rules)
add_rule(map, rule_def, rule_index) ==
    LET p == process_rule(rule_def, rule_index)
        rule == Rule(rule_def.name, rule_index, p.ancestor)
    IN  IF p.exc # NoError THEN [exc |-> p.exc, map |-> map, added |-> FALSE]
        ELSE IF ~HasKey(map, p.ancestor)
        THEN [exc |-> NoError, map |-> map \cup {rule}, added |-> TRUE]
        ELSE [exc |-> NoError, map |-> map, added |-> TRUE]

\* The contents of a rules file, as loaded
NoneFile == [kind |-> "None", rules |-> <<>>]           \* nothing loaded
EmptyDict == [kind |-> "empty", rules |-> <<>>]          \* {}
NullRules == [kind |-> "nullrules", rules |-> <<>>]      \* {'rules': None}
NoRulesKey == [kind |-> "norules", rules |-> <<>>]       \* a dict without 'rules'
RulesDict(defs) == [kind |-> "rules", rules |-> defs]    \* {'rules': [...]}

\* the loop of add_rules from definition i on; 'accepted' lists the
\* (definition, index) pairs add_rule returned from
RECURSIVE add_rules_from(_, _, _, _)
add_rules_from(map, defs, i, accepted) ==
    IF i > Len(defs) THEN [exc |-> NoError, map |-> map, accepted |-> accepted]
    ELSE LET r == add_rule(map, defs[i], i - 1)
         IN  IF r.exc = TypeError         \* except TypeError: pass
             THEN [exc |-> NoError, map |-> map, accepted |-> accepted]
             ELSE IF r.exc # NoError
             THEN [exc |-> r.exc, map |-> map, accepted |-> accepted]
             ELSE add_rules_from(r.map, defs, i + 1,
                                 Append(accepted, [def |-> defs[i], index |-> i - 1]))

add_rules(map, rule_defs) ==
    IF rule_defs.kind = "rules" THEN add_rules_from(map, rule_defs.rules, 1, <<>>)
    ELSE \* enumerate(None) raises TypeError, caught; a missing key gives []
         [exc |-> NoError, map |-> map, accepted |-> <<>>]

\* faulty variant, for mutation checks: without rule definitions, a default rule
\* for the inventory's root resource is added
RuleBookInit_with_default(global_configs, rule_defs) ==
    IF rule_defs.kind \in {"None", "empty"}
    THEN LET r == add_rule({}, [name |-> "default",
                                ancestor |-> StrValue(global_configs.root_resource_id)], 0)
         IN  [exc |-> r.exc, map |-> r.map, accepted |-> <<>>]
    ELSE add_rules({}, rule_defs)

\* ExternalProjectAccessRuleBook.__init__
RuleBookInit(global_configs, rule_defs) ==
    IF rule_defs.kind \in {"None", "empty"}        \* if not rule_defs
    THEN [exc |-> NoError, map |-> {}, accepted |-> <<>>]
    ELSE add_rules({}, rule_defs)

\* the orders in which a dict holding these rules may iterate
RECURSIVE Orderings(_)
Orderings(S) ==
    IF S = {} THEN {<<>>}
    ELSE UNION {{<<x>> \o rest : rest \in Orderings(S \ {x})} : x \in S}

Range(f) == {f[i] : i \in DOMAIN f}

\* the inventory configuration handed to build_rule_book
InventoryConfig == [root_resource_id |-> ORGANIZATIONS \o SLASH \o <<"1">>]

-----------------------------------------------------------------------------
(* Rule.policy_violation and ExternalProjectAccessRulesEngine.             *)

VIOLATION_TYPE == "EXTERNAL_PROJECT_ACCESS_VIOLATION"

\* faulty variant, for mutation checks: the violation is attributed to the root of
\* the chain (ancestry[-1]) instead of its leaf
policy_violation_root(rule, user_email, ancestry) ==
    [resource_type |-> PROJECT,
     resource_id |-> ancestry[Len(ancestry)].id,
     rule_name |-> rule.rule_name,
     rule_index |-> rule.rule_index,
     rule_ancestor |-> rule.rules.name,
     full_name |-> ancestry[Len(ancestry)].name,
     violation_type |-> VIOLATION_TYPE,
     member |-> user_email,
     resource_data |-> Join(COMMA, [i \in 1..Len(ancestry) |-> ancestry[i].name])]

\* the RuleViolation that Rule.policy_violation yields (ancestry[0] exists)
policy_violation(rule, user_email, ancestry) ==
    [resource_type |-> PROJECT,
     resource_id |-> ancestry[1].id,
     rule_name |-> rule.rule_name,
     rule_index |-> rule.rule_index,
     rule_ancestor |-> rule.rules.name,
     full_name |-> ancestry[1].name,
     violation_type |-> VIOLATION_TYPE,
     member |-> user_email,
     resource_data |-> Join(COMMA, [i \in 1..Len(ancestry) |-> ancestry[i].name])]

\* engine.rule_book: None, or a rule book whose resource_rules_map
\* iterates in the order of the sequence
NoRuleBook == [built |-> FALSE, resource_rules_map |-> <<>>]
RuleBook(order) == [built |-> TRUE, resource_rules_map |-> order]

\* faulty variant, for mutation checks: a rule is violated when its ancestor IS in the chain
find_policy_violations_inverted(book, user_email, project_ancestry, force_rebuild) ==
    IF ~book.built \/ force_rebuild
    THEN [exc |-> TypeError, violations |-> <<>>, book |-> book]
    ELSE LET rules_violated ==
                 SelectSeq(book.resource_rules_map,
                           LAMBDA rule : InChain(rule.rules, project_ancestry))
         IN  [exc |-> NoError,
              violations |-> [i \in 1..Len(rules_violated) |->
                  policy_violation(rules_violated[i], user_email, project_ancestry)],
              book |-> book]

\* faulty variant, for mutation checks: the violated rules are taken out of the rule book
find_policy_violations_consuming(book, user_email, project_ancestry, force_rebuild) ==
    IF ~book.built \/ force_rebuild
    THEN [exc |-> TypeError, violations |-> <<>>, book |-> book]
    ELSE LET rules_violated ==
                 SelectSeq(book.resource_rules_map,
                           LAMBDA rule : ~InChain(rule.rules, project_ancestry))
         IN  IF rules_violated # <<>> /\ project_ancestry = <<>>
             THEN [exc |-> IndexError, violations |-> <<>>, book |-> book]
             ELSE [exc |-> NoError,
                   violations |-> [i \in 1..Len(rules_violated) |->
                       policy_violation(rules_violated[i], user_email, project_ancestry)],
                   book |-> RuleBook(SelectSeq(book.resource_rules_map,
                       LAMBDA rule : InChain(rule.rules, project_ancestry)))]

\* find_policy_violations, with the returned generator consumed by the
\* caller (all_violations.extend(violations)): the exception raised, the
\* violations in order, and the engine's rule book afterwards
find_policy_violations(book, user_email, project_ancestry, force_rebuild) ==
    IF ~book.built \/ force_rebuild
    THEN \* self.build_rule_book() is called without its argument
         [exc |-> TypeError, violations |-> <<>>, book |-> book]
    ELSE LET rules_violated ==
                 SelectSeq(book.resource_rules_map,
                           LAMBDA rule : ~InChain(rule.rules, project_ancestry))
         IN  IF rules_violated # <<>> /\ project_ancestry = <<>>
             THEN \* ancestry[0] of an empty chain
                  [exc |-> IndexError, violations |-> <<>>, book |-> book]
             ELSE [exc |-> NoError,
                   violations |-> [i \in 1..Len(rules_violated) |->
                       policy_violation(rules_violated[i], user_email, project_ancestry)],
                   book |-> book]

-----------------------------------------------------------------------------
(* Inputs.                                                                 *)

Members == {"user1", "user2"}

Project(id) == create_resource(id, PROJECT)
Folder(id) == create_resource(id, FOLDER)
Organization(id) == create_resource(id, ORGANIZATION)

ChainResources == {Project(<<"p">>), Folder(<<"1">>), Organization(<<"1">>)}

SeqsUpTo(S, n) == UNION {[1..k -> S] : k \in 0..n}

Chains == SeqsUpTo(ChainResources, MaxChain)

RuleDef(name, ancestor) == [name |-> name, ancestor |-> ancestor]

ORG_1 == ORGANIZATIONS \o SLASH \o <<"1">>
FOLDER_1 == FOLDERS \o SLASH \o <<"1">>
POLICY_1 == POLICY \o SLASH \o <<"1">>

ValidDefs ==
    {RuleDef("a", StrValue(ORG_1)), RuleDef("b", StrValue(ORG_1)),
     RuleDef("a", StrValue(FOLDER_1))}

BadDefs ==
    {RuleDef("a", NoneValue), RuleDef("a", StrValue(POLICY_1)),
     RuleDef("a", IntValue(5)), RuleDef("a", StrValue(ORG_1 \o NEWLINE))}

Defs == ValidDefs \cup BadDefs

Files == {NoneFile, EmptyDict, NullRules, NoRulesKey}
             \cup {RulesDict(d) : d \in SeqsUpTo(Defs, MaxDefs)}

\* generated ancestor strings: prefix, literal, slash, body, suffix
Bodies == SeqsUpTo({"1", "2", "a"}, MaxDigits)
AncestorStrings ==
    {pre \o lit \o body \o suf :
        pre \in {<<>>, <<"x">>},
        lit \in {ORGANIZATIONS \o SLASH, FOLDERS \o SLASH, POLICY \o SLASH,
                 ORGANIZATION \o SLASH, ORGANIZATIONS, <<>>},
        body \in Bodies,
        suf \in {<<>>, NEWLINE, <<"x">>, NEWLINE \o NEWLINE, <<"/", "1">>}}

AncestorValues ==
    {NoneValue, IntValue(0), IntValue(5)} \cup {StrValue(s) : s \in AncestorStrings}

-----------------------------------------------------------------------------
(* The engine and its rule book: operations.                               *)

NoCall == "none"

\* no find_policy_violations call has been made on the current rule book
NoPrevious == [made |-> FALSE, exc |-> NoError, violations |-> <<>>]

\* engine.build_rule_book(global_configs)
BuildRuleBook ==
    /\ call' = "build_rule_book"
    /\ result' = <<>>
    /\ previous' = NoPrevious
    /\ LET r == RuleBookInit(InventoryConfig, rules_file)
       IN  IF r.exc # NoError
           THEN /\ raised' = r.exc
                /\ UNCHANGED <<rule_book, applied>>
           ELSE /\ raised' = NoError
                /\ applied' = r.accepted
                /\ \E order \in Orderings(r.map) : rule_book' = RuleBook(order)
    /\ UNCHANGED <<rules_file, arg_member, arg_chain, arg_ancestor, arg_index>>
    /\ UNCHANGED <<scan_vars, threads>>

\* rule_book.add_rule(rule_def, rule_index) on the engine's rule book
AddRule(rule_def, rule_index) ==
    /\ rule_book.built
    /\ Len(applied) < MaxDefs
    /\ call' = "add_rule"
    /\ result' = <<>>
    /\ previous' = NoPrevious
    /\ LET r == add_rule(Range(rule_book.resource_rules_map), rule_def, rule_index)
       IN  /\ raised' = r.exc
           /\ applied' = IF r.added
                         THEN Append(applied, [def |-> rule_def, index |-> rule_index])
                         ELSE applied
           /\ IF r.map = Range(rule_book.resource_rules_map)
              THEN UNCHANGED rule_book
              ELSE \E order \in Orderings(r.map) : rule_book' = RuleBook(order)
    /\ UNCHANGED <<rules_file, arg_member, arg_chain, arg_ancestor, arg_index>>
    /\ UNCHANGED <<scan_vars, threads>>

\* engine.find_policy_violations(user_email, project_ancestry, force_rebuild),
\* its result consumed
FindPolicyViolations(force_rebuild) ==
    /\ call' = IF force_rebuild THEN "find_policy_violations(force_rebuild)"
               ELSE "find_policy_violations"
    /\ previous' = IF call = "find_policy_violations"
                   THEN [made |-> TRUE, exc |-> raised, violations |-> result]
                   ELSE previous
    /\ LET r == find_policy_violations(rule_book, arg_member, arg_chain, force_rebuild)
       IN  /\ raised' = r.exc
           /\ result' = r.violations
           /\ rule_book' = r.book
    /\ UNCHANGED <<rules_file, applied, arg_member, arg_chain, arg_ancestor, arg_index>>
    /\ UNCHANGED <<scan_vars, threads>>

\* ExternalProjectAccessRuleBook.validate_ancestor(ancestor, rule_index)
ValidateAncestor ==
    /\ call' = "validate_ancestor"
    /\ previous' = NoPrevious
    /\ raised' = validate_ancestor(arg_ancestor, arg_index)
    /\ result' = <<>>
    /\ UNCHANGED <<rules_file, rule_book, applied, arg_member, arg_chain,
                   arg_ancestor, arg_index>>
    /\ UNCHANGED <<scan_vars, threads>>

\* ExternalProjectAccessRuleBook.process_rule(rule_def, rule_index)
ProcessRule ==
    /\ call' = "process_rule"
    /\ previous' = NoPrevious
    /\ LET p == process_rule(RuleDef("a", arg_ancestor), arg_index)
       IN  /\ raised' = p.exc
           /\ result' = IF p.exc = NoError THEN <<p.ancestor>> ELSE <<>>
    /\ UNCHANGED <<rules_file, rule_book, applied, arg_member, arg_chain,
                   arg_ancestor, arg_index>>
    /\ UNCHANGED <<scan_vars, threads>>

-----------------------------------------------------------------------------
(* ExternalProjectAccessScanner: the remote collaborators.                 *)

MaxProjects == 2  \* project ids one identity's get_projects() lists

ProjectIds == {"p1", "p2"}

RefreshError == [exc |-> "RefreshError", text |-> "", index |-> -1]
KeyError == [exc |-> "KeyError", text |-> "", index |-> -1]
AttributeError == [exc |-> "AttributeError", text |-> "", index |-> -1]
HttpError == [exc |-> "HttpError", text |-> "", index |-> -1]

\* one element of a get_project_ancestry response; a malformed one has no
\* 'resourceId'
Descriptor(type, id) == [wellformed |-> TRUE, type |-> type, id |-> id]
Malformed == [wellformed |-> FALSE, type |-> <<>>, id |-> <<>>]

\* the ancestry of each project in the resource hierarchy, leaf to root
Ancestry(project_id) ==
    IF project_id = "p1"
    THEN <<Descriptor(PROJECT, <<"p", "1">>), Descriptor(FOLDER, <<"1">>),
           Descriptor(ORGANIZATION, <<"1">>)>>
    ELSE <<Descriptor(PROJECT, <<"p", "2">>), Descriptor(ORGANIZATION, <<"2">>)>>

\* what crm_client.get_projects() can do for an identity: list project ids,
\* answer without a 'projects' key (KeyError in the caller), or raise
ProjectListings ==
    {[exc |-> NoError, project_ids |-> ids] : ids \in SeqsUpTo(ProjectIds, MaxProjects)}
      \cup {[exc |-> e, project_ids |-> <<>>] : e \in {KeyError, RefreshError, HttpError}}

\* what crm_client.get_project_ancestry(project_id) can do: return the
\* ancestry, return it with one malformed element, or raise
AncestryResponses(project_id) ==
    {[exc |-> NoError, ancestor |-> Ancestry(project_id)]}
      \cup {[exc |-> NoError,
             ancestor |-> [Ancestry(project_id) EXCEPT ![k] = Malformed]] :
                k \in 1..Len(Ancestry(project_id))}
      \cup {[exc |-> e, ancestor |-> <<>>] : e \in {RefreshError, HttpError}}

-----------------------------------------------------------------------------
(* ExternalProjectAccessScanner._project_ancestries_by_user.               *)

\* a dict as a function on its keys
Keys(d) == DOMAIN d
Put(d, k, v) == [x \in DOMAIN d \cup {k} |-> IF x = k THEN v ELSE d[x]]

\* the loop that appends a resource per element to self._ancestries[project_id]:
\* the list as it is left, and the exception that stopped the loop
RECURSIVE translate_into(_, _)
translate_into(list, response) ==
    IF response = <<>> THEN [exc |-> NoError, list |-> list]
    ELSE IF ~Head(response).wellformed
    THEN [exc |-> KeyError, list |-> list]      \* resource['resourceId']
    ELSE translate_into(
             Append(list, create_resource(Head(response).id, Head(response).type)),
             Tail(response))

\* faulty variant, for mutation checks: the cache is never consulted
cached_never(cache, project_id) == FALSE

\* project_id in self._ancestries.keys()
cached(cache, project_id) == project_id \in Keys(cache)

NoResolution == [active |-> FALSE, user |-> "", pending |-> <<>>, ancestries |-> <<>>]

\* faulty variant, for mutation checks: _retrieve catches every exception
except_clause_any(exc) == TRUE

\* the except clauses of _retrieve around _project_ancestries_by_user
except_clause(exc) == exc \in {KeyError, RefreshError}

\* one pass of the loop over project_ids, for the head of cur.pending.
\* A list in 'ancestries' is the list object stored in the cache: it is
\* held as the project id under which the cache stores it.
ResolveProject ==
    /\ phase = "retrieve"
    /\ cur.active
    /\ cur.pending # <<>>
    /\ LET project_id == Head(cur.pending)
       IN  IF cached(_ancestries, project_id)
           THEN /\ cur' = [cur EXCEPT !.pending = Tail(@),
                                      !.ancestries = Append(@, project_id)]
                /\ UNCHANGED <<_ancestries, lookups, skipped, phase, raised, inventory,
                               enumerated>>
           ELSE \E response \in AncestryResponses(project_id) :
                  LET t == IF response.exc # NoError
                           THEN [exc |-> response.exc, list |-> <<>>]
                           ELSE translate_into(<<>>, response.ancestor)
                  IN  /\ lookups' = [lookups EXCEPT ![project_id] = @ + 1]
                      /\ _ancestries' = Put(_ancestries, project_id, t.list)
                      /\ IF t.exc = NoError
                         THEN /\ cur' = [cur EXCEPT !.pending = Tail(@),
                                                    !.ancestries = Append(@, project_id)]
                              /\ UNCHANGED <<skipped, phase, raised, inventory,
                                             enumerated>>
                         ELSE IF except_clause(t.exc)
                         THEN \* caught in _retrieve: the identity gets no entry
                              /\ cur' = NoResolution
                              /\ skipped' = skipped \cup {cur.user}
                              /\ inventory' = Tail(inventory)
                              /\ enumerated' = [enumerated EXCEPT
                                                    ![Len(enumerated)].failure = t.exc]
                              /\ UNCHANGED <<phase, raised>>
                         ELSE /\ cur' = NoResolution
                              /\ phase' = "aborted"
                              /\ raised' = t.exc
                              /\ enumerated' = [enumerated EXCEPT
                                                    ![Len(enumerated)].failure = t.exc]
                              /\ UNCHANGED <<skipped, inventory>>
    /\ UNCHANGED <<by_user, eval_queue, all_violations, sink, threads>>
    /\ UNCHANGED <<rules_file, rule_book, applied, call, result, previous,
                   arg_member, arg_chain, arg_ancestor, arg_index>>

-----------------------------------------------------------------------------
(* ExternalProjectAccessScanner._retrieve.                                 *)

\* the next inventory row: _project_ancestries_by_user(user_email) starts
\* and lists the identity's project ids
NextIdentity ==
    /\ phase = "retrieve"
    /\ ~cur.active
    /\ inventory # <<>>
    /\ \E listing \in ProjectListings :
          /\ enumerated' = Append(enumerated, [user |-> Head(inventory),
                                                failure |-> listing.exc])
          /\ IF listing.exc = NoError
             THEN /\ cur' = [active |-> TRUE, user |-> Head(inventory),
                             pending |-> listing.project_ids, ancestries |-> <<>>]
                  /\ UNCHANGED <<skipped, inventory, phase, raised>>
             ELSE IF except_clause(listing.exc)
             THEN /\ skipped' = skipped \cup {Head(inventory)}
                  /\ inventory' = Tail(inventory)
                  /\ UNCHANGED <<cur, phase, raised>>
             ELSE /\ phase' = "aborted"
                  /\ raised' = listing.exc
                  /\ UNCHANGED <<cur, skipped, inventory>>
    /\ UNCHANGED <<_ancestries, by_user, eval_queue, all_violations, sink, lookups,
                   threads>>
    /\ UNCHANGED <<rules_file, rule_book, applied, call, result, previous,
                   arg_member, arg_chain, arg_ancestor, arg_index>>

\* _project_ancestries_by_user returns: project_ancestries_by_user[user_email] = ...
StoreIdentity ==
    /\ phase = "retrieve"
    /\ cur.active
    /\ cur.pending = <<>>
    /\ by_user' = Put(by_user, cur.user, cur.ancestries)
    /\ cur' = NoResolution
    /\ inventory' = Tail(inventory)
    /\ UNCHANGED <<phase, _ancestries, eval_queue, all_violations, sink, lookups, skipped,
                   enumerated, threads>>
    /\ UNCHANGED engine_vars

-----------------------------------------------------------------------------
(* ExternalProjectAccessScanner._find_violations.                          *)

\* the (identity, ancestry list) pairs in the order the two loops visit
\* them, for one iteration order of the dict
RECURSIVE PairsOf(_, _)
PairsOf(users, d) ==
    IF users = <<>> THEN <<>>
    ELSE [i \in 1..Len(d[Head(users)]) |->
             [user |-> Head(users), ancestry |-> d[Head(users)][i]]]
         \o PairsOf(Tail(users), d)

\* faulty variant, for mutation checks: _find_violations starts while the
\* inventory iteration still has identities to yield
StartFindViolations_early ==
    /\ phase = "retrieve"
    /\ ~cur.active
    /\ phase' = "evaluate"
    /\ \E users \in Orderings(Keys(by_user)) : eval_queue' = PairsOf(users, by_user)
    /\ UNCHANGED <<inventory, cur, _ancestries, by_user, all_violations, sink,
                   lookups, skipped, enumerated, threads>>
    /\ UNCHANGED engine_vars

\* _retrieve returns and _find_violations starts iterating the dict
StartFindViolations ==
    /\ phase = "retrieve"
    /\ ~cur.active
    /\ inventory = <<>>
    /\ phase' = "evaluate"
    /\ \E users \in Orderings(Keys(by_user)) : eval_queue' = PairsOf(users, by_user)
    /\ UNCHANGED <<inventory, cur, _ancestries, by_user, all_violations, sink,
                   lookups, skipped, enumerated, threads>>
    /\ UNCHANGED engine_vars

\* one pass of the inner loop: find_policy_violations and extend
FindViolations ==
    /\ phase = "evaluate"
    /\ eval_queue # <<>>
    /\ LET pair == Head(eval_queue)
           r == find_policy_violations(rule_book, pair.user,
                                       _ancestries[pair.ancestry], FALSE)
       IN  /\ rule_book' = r.book
           /\ IF r.exc = NoError
              THEN /\ all_violations' = all_violations \o r.violations
                   /\ eval_queue' = Tail(eval_queue)
                   /\ UNCHANGED <<phase, raised>>
              ELSE /\ phase' = "aborted"
                   /\ raised' = r.exc
                   /\ UNCHANGED <<all_violations, eval_queue>>
    /\ UNCHANGED <<inventory, cur, _ancestries, by_user, sink, lookups, skipped,
                   enumerated, threads>>
    /\ UNCHANGED <<rules_file, applied, call, result, previous,
                   arg_member, arg_chain, arg_ancestor, arg_index>>

-----------------------------------------------------------------------------
(* ExternalProjectAccessScanner._output_results.                           *)

\* _flatten_violations, consumed by the sink: violation.rule_ancestor is
\* the string Rule.policy_violation stored (self.rules.name), and a string
\* has no attribute 'name'
flatten_violations(violations) ==
    IF violations = <<>> THEN [exc |-> NoError, records |-> <<>>]
    ELSE [exc |-> AttributeError, records |-> <<>>]

OutputResults ==
    /\ phase = "evaluate"
    /\ eval_queue = <<>>
    /\ LET f == flatten_violations(all_violations)
       IN  IF f.exc = NoError
           THEN /\ sink' = Append(sink, f.records)
                /\ phase' = "done"
                /\ UNCHANGED raised
           ELSE /\ phase' = "aborted"
                /\ raised' = f.exc
                /\ UNCHANGED sink
    /\ UNCHANGED <<inventory, cur, _ancestries, by_user, eval_queue, all_violations,
                   lookups, skipped, enumerated, threads>>
    /\ UNCHANGED <<rules_file, rule_book, applied, call, result, previous,
                   arg_member, arg_chain, arg_ancestor, arg_index>>

-----------------------------------------------------------------------------
(* Specifications.                                                         *)

\* no concurrent call is in progress
NoThreads == <<>>

\* no scanner has been constructed
NoScan ==
    /\ phase = "none"
    /\ inventory = <<>>
    /\ cur = NoResolution
    /\ _ancestries = <<>>
    /\ by_user = <<>>
    /\ eval_queue = <<>>
    /\ all_violations = <<>>
    /\ sink = <<>>
    /\ lookups = [p \in ProjectIds |-> 0]
    /\ skipped = {}
    /\ enumerated = <<>>
    /\ threads = NoThreads

Idle ==
    /\ rule_book = NoRuleBook
    /\ applied = <<>>
    /\ call = NoCall
    /\ raised = NoError
    /\ result = <<>>
    /\ previous = NoPrevious
    /\ NoScan

\* the rules files whose definitions all validate
ValidFiles == {NoneFile, EmptyDict, NullRules, NoRulesKey}
                  \cup {RulesDict(d) : d \in SeqsUpTo(ValidDefs, MaxDefs)}

\* the engine after construction, one rules file, one (identity, chain)
Init ==
    /\ Idle
    /\ rules_file \in ValidFiles
    /\ arg_member \in Members
    /\ arg_chain \in Chains
    /\ arg_ancestor = NoneValue
    /\ arg_index = 0

Next ==
    \/ BuildRuleBook
    \/ \E force_rebuild \in BOOLEAN : FindPolicyViolations(force_rebuild)

Spec == Init /\ [][Next]_vars

\* the engine after construction, and a rules file of any content
InitBuild ==
    /\ Idle
    /\ rules_file \in Files
    /\ arg_member = "user1"
    /\ arg_chain = <<>>
    /\ arg_ancestor = NoneValue
    /\ arg_index = 0

NextBuild == BuildRuleBook

SpecBuild == InitBuild /\ [][NextBuild]_vars

\* a rule book constructed without rule definitions, then add_rule calls
InitBook ==
    /\ rule_book = RuleBook(<<>>)
    /\ applied = <<>>
    /\ call = NoCall
    /\ raised = NoError
    /\ result = <<>>
    /\ previous = NoPrevious
    /\ NoScan
    /\ rules_file = NoneFile
    /\ arg_member = "user1"
    /\ arg_chain = <<>>
    /\ arg_ancestor = NoneValue
    /\ arg_index = 0

NextBook == \E d \in Defs, i \in 0..MaxDefs : AddRule(d, i)

SpecBook == InitBook /\ [][NextBook]_vars

\* validate_ancestor and process_rule as functions of their arguments
InitValidate ==
    /\ Idle
    /\ rules_file = NoneFile
    /\ arg_member = "user1"
    /\ arg_chain = <<>>
    /\ arg_ancestor \in AncestorValues
    /\ arg_index \in 0..MaxDefs

NextValidate ==
    \/ ValidateAncestor
    \/ ProcessRule

SpecValidate == InitValidate /\ [][NextValidate]_vars

\* a scanner after construction (its rule book built from the rules file)
\* and the inventory it will iterate
ScanFiles ==
    {EmptyDict,
     RulesDict(<<RuleDef("a", StrValue(ORG_1))>>),
     RulesDict(<<RuleDef("a", StrValue(ORG_1)), RuleDef("b", StrValue(FOLDER_1))>>)}

InitScan ==
    /\ rules_file \in ScanFiles
    /\ \E order \in Orderings(RuleBookInit(InventoryConfig, rules_file).map) :
          rule_book = RuleBook(order)
    /\ applied = RuleBookInit(InventoryConfig, rules_file).accepted
    /\ call = "build_rule_book"
    /\ raised = NoError
    /\ result = <<>>
    /\ previous = NoPrevious
    /\ arg_member = "user1"
    /\ arg_chain = <<>>
    /\ arg_ancestor = NoneValue
    /\ arg_index = 0
    /\ phase = "retrieve"
    /\ inventory \in Orderings(Members)
    /\ cur = NoResolution
    /\ _ancestries = <<>>
    /\ by_user = <<>>
    /\ eval_queue = <<>>
    /\ all_violations = <<>>
    /\ sink = <<>>
    /\ lookups = [p \in ProjectIds |-> 0]
    /\ skipped = {}
    /\ enumerated = <<>>
    /\ threads = NoThreads

NextScan ==
    \/ NextIdentity
    \/ ResolveProject
    \/ StoreIdentity
    \/ StartFindViolations
    \/ FindViolations
    \/ OutputResults

SpecScan == InitScan /\ [][NextScan]_vars

-----------------------------------------------------------------------------
(* Properties of find_policy_violations (specification Spec).              *)

Rules == Range(rule_book.resource_rules_map)

\* a rule's ancestor equals some element of the chain, in type and id
AncestorInChain(rule, chain) ==
    \E i \in DOMAIN chain :
        chain[i].type = rule.rules.type /\ chain[i].id = rule.rules.id

\* the positions of the result that report the rule
ViolationsOf(rule) ==
    {i \in DOMAIN result :
        /\ result[i].rule_index = rule.rule_index
        /\ result[i].rule_name = rule.rule_name
        /\ result[i].rule_ancestor = rule.rules.name}

FindReturned ==
    /\ call = "find_policy_violations"
    /\ rule_book.built

C9_ViolationFields ==
    (FindReturned /\ arg_chain # <<>>) =>
        \A i \in DOMAIN result :
            /\ result[i].resource_type = PROJECT
            /\ result[i].resource_id = arg_chain[1].id
            /\ result[i].full_name = arg_chain[1].name
            /\ result[i].member = arg_member
            /\ result[i].violation_type = "EXTERNAL_PROJECT_ACCESS_VIOLATION"
            /\ \E rule \in Rules :
                  /\ ~AncestorInChain(rule, arg_chain)
                  /\ i \in ViolationsOf(rule)
            /\ Split(result[i].resource_data, ",") =
                  [k \in 1..Len(arg_chain) |-> arg_chain[k].name]

\* a violation for a chain whose leaf differs from its root
C9_Witness ==
    /\ FindReturned
    /\ Len(arg_chain) = MaxChain
    /\ arg_chain[1] # arg_chain[Len(arg_chain)]
    /\ result # <<>>

DefinesNoRules(file) == file.kind # "rules" \/ file.rules = <<>>

-----------------------------------------------------------------------------
(* Properties of validation and of the rule book (SpecValidate, SpecBook). *)

AllDigits(s) == \A j \in DOMAIN s : s[j] \in Digits

\* the whole string is 'organizations/' or 'folders/' and one or more digits
WholeStringForm(v) ==
    /\ v.kind = "str"
    /\ \E literal \in {ORGANIZATIONS \o SLASH, FOLDERS \o SLASH} :
          /\ StartsWith(v.s, literal)
          /\ Drop(v.s, Len(literal)) # <<>>
          /\ AllDigits(Drop(v.s, Len(literal)))

\* C4: validate_ancestor, given a string or a missing ancestor, succeeds
\* exactly for the whole-string forms organizations/<digits> and
\* folders/<digits>, and for every other value raises
\* InvalidRulesSchemaError citing the rule index
C4_ValidateAncestorWholeString ==
    (call = "validate_ancestor" /\ arg_ancestor.kind \in {"str", "None"}) =>
        IF WholeStringForm(arg_ancestor)
        THEN raised = NoError
        ELSE raised.exc = "InvalidRulesSchemaError" /\ raised.index = arg_index

\* some definition of the file has a missing or malformed ancestor
HasBadAncestor(file) ==
    /\ file.kind = "rules"
    /\ \E i \in DOMAIN file.rules : ~WholeStringForm(file.rules[i].ancestor)

\* C5: a build from definitions of which one has a missing or malformed
\* ancestor raises InvalidRulesSchemaError and leaves the engine's rule book
\* as it was
C5_BadAncestorFailsBuild ==
    [][(call' = "build_rule_book" /\ HasBadAncestor(rules_file)) =>
          (raised'.exc = "InvalidRulesSchemaError" /\ rule_book' = rule_book)]_vars

\* C8: a build from a rules file that defines no rules, with an inventory
\* whose root resource is an organization, gives a rule book of one rule
C8_DefaultRuleAdded ==
    (/\ call = "build_rule_book"
     /\ raised = NoError
     /\ DefinesNoRules(rules_file)
     /\ StartsWith(InventoryConfig.root_resource_id, ORGANIZATIONS \o SLASH))
        => Len(rule_book.resource_rules_map) = 1

\* the ancestor (type, id) a valid definition names
FirstSlash(s) == CHOOSE i \in DOMAIN s : s[i] = "/" /\ \A j \in 1..(i - 1) : s[j] # "/"
NamedAncestor(def) ==
    <<IF StartsWith(def.ancestor.s, ORGANIZATIONS) THEN ORGANIZATION ELSE FOLDER,
      Drop(def.ancestor.s, FirstSlash(def.ancestor.s))>>

\* the earliest accepted definition naming the same ancestor as the k-th
Earliest(k) ==
    CHOOSE j \in 1..k :
        /\ NamedAncestor(applied[j].def) = NamedAncestor(applied[k].def)
        /\ \A i \in 1..(j - 1) :
              NamedAncestor(applied[i].def) # NamedAncestor(applied[k].def)

RulesFor(ancestor) ==
    {rule \in Rules : <<rule.rules.type, rule.rules.id>> = ancestor}

\* C6: after add_rule calls with valid definitions the rule book holds, for
\* each distinct ancestor, exactly one rule, with the name and index of the
\* earliest definition naming it; its size is the number of distinct ancestors
C6_FirstDefinitionWins ==
    rule_book.built =>
        /\ \A k \in DOMAIN applied :
              \E rule \in Rules :
                  /\ RulesFor(NamedAncestor(applied[k].def)) = {rule}
                  /\ rule.rule_name = applied[Earliest(k)].def.name
                  /\ rule.rule_index = applied[Earliest(k)].index
        /\ Cardinality(Rules) =
              Cardinality({NamedAncestor(applied[k].def) : k \in DOMAIN applied})
        /\ Len(rule_book.resource_rules_map) = Cardinality(Rules)

\* two accepted definitions name one ancestor under different names and indexes
C6_Witness ==
    /\ rule_book.built
    /\ Len(applied) = MaxDefs
    /\ \E j, k \in DOMAIN applied :
          /\ j < k
          /\ NamedAncestor(applied[j].def) = NamedAncestor(applied[k].def)
          /\ applied[j].def.name # applied[k].def.name
          /\ applied[j].index # applied[k].index

-----------------------------------------------------------------------------
(* Properties of the scan (specification SpecScan).                        *)

\* C2: within one scan, get_project_ancestry is invoked at most once for
\* each project id, however many identities list the project
C2_OneLookupPerProject ==
    \A project_id \in ProjectIds : lookups[project_id] <= 1

\* two identities were resolved, both listing the same project
C2_Witness ==
    /\ Keys(by_user) = Members
    /\ \E project_id \in ProjectIds :
          /\ \A u \in Members :
                \E i \in DOMAIN by_user[u] : by_user[u][i] = project_id
          /\ lookups[project_id] = 1

\* the chain the hierarchy holds for a project, translated
TrueChain(project_id) ==
    [i \in 1..Len(Ancestry(project_id)) |->
        create_resource(Ancestry(project_id)[i].id, Ancestry(project_id)[i].type)]

\* the violations an identity's listed projects give, in list order
RECURSIVE ExpectedViolations(_, _)
ExpectedViolations(user, project_ids) ==
    IF project_ids = <<>> THEN <<>>
    ELSE find_policy_violations(rule_book, user, TrueChain(Head(project_ids)),
                                FALSE).violations
         \o ExpectedViolations(user, Tail(project_ids))

\* the evaluation of some chain raised
EvaluationAborted == phase = "aborted" /\ raised \in {IndexError, TypeError}

\* every (identity, chain) pair has been evaluated
EvaluationComplete ==
    \/ phase = "evaluate" /\ eval_queue = <<>>
    \/ phase = "done"
    \/ phase = "aborted" /\ raised = AttributeError

\* C3: an identity whose listing or ancestry lookup raises a credential
\* error, or that has no projects, contributes no chain, and the other
\* identities' chains are still evaluated to completion, with the
\* violations they would give had the failing identity not been enumerated
C3_FailureIsolation ==
    /\ \A u \in skipped : u \notin Keys(by_user)
    /\ ~EvaluationAborted
    /\ EvaluationComplete =>
          \A u \in Keys(by_user) :
              SelectSeq(all_violations, LAMBDA v : v.member = u)
                  = ExpectedViolations(u, by_user[u])

-----------------------------------------------------------------------------
(* Properties of a rebuilding find_policy_violations (specification Spec). *)

\* the violations of the chain against the rules a build from the rules
\* file gives
RebuiltViolations ==
    {policy_violation(rule, arg_member, arg_chain) :
        rule \in {r \in RuleBookInit(InventoryConfig, rules_file).map :
                     ~AncestorInChain(r, arg_chain)}}

\* C11: find_policy_violations with force_rebuild, or on an engine without
\* a rule book, rebuilds the rule book from the rule definitions and returns
\* the violations of the chain against the rebuilt book; without
\* force_rebuild on an engine that has a rule book it leaves the rule book
\* as it is
C11_ForceRebuildRebuilds ==
    [][/\ (\/ call' = "find_policy_violations(force_rebuild)"
           \/ call' = "find_policy_violations" /\ ~rule_book.built)
          => /\ rule_book'.built
             /\ Range(rule_book'.resource_rules_map)
                   = RuleBookInit(InventoryConfig, rules_file).map
             /\ arg_chain # <<>> =>
                   /\ raised' = NoError
                   /\ Range(result') = RebuiltViolations
       /\ (call' = "find_policy_violations" /\ rule_book.built)
          => rule_book' = rule_book]_vars

-----------------------------------------------------------------------------
(* Properties of the run's failures and phases (specification SpecScan).   *)

\* the exceptions _retrieve recovers from, per identity
Recoverable == {KeyError, RefreshError}

HandedChains ==
    UNION {Range(by_user[u]) : u \in Keys(by_user)}
        \cup (IF cur.active THEN Range(cur.ancestries) ELSE {})

\* C13: every chain handed to an identity for a project is the complete
\* translation of the project's ancestry, leaf project first: it is never
\* empty and never truncated, whatever happened in earlier resolutions
C13_CompleteChains ==
    \A project_id \in HandedChains :
        /\ _ancestries[project_id] # <<>>
        /\ _ancestries[project_id][1].type = PROJECT
        /\ _ancestries[project_id] = TrueChain(project_id)

\* the record copies the violation's fields and nests full_name, member
\* and the rule ancestor's name
FlattenedFrom(record, violation) ==
    /\ record.resource_id = violation.resource_id
    /\ record.resource_type = violation.resource_type
    /\ record.full_name = violation.full_name
    /\ record.rule_index = violation.rule_index
    /\ record.rule_name = violation.rule_name
    /\ record.violation_type = violation.violation_type
    /\ record.resource_data = violation.resource_data
    /\ record.violation_data.full_name = violation.full_name
    /\ record.violation_data.member = violation.member
    /\ record.violation_data.rule_ancestor = violation.rule_ancestor

\* C14: once every pair is evaluated, the output step flattens every
\* accumulated violation into one record, in order, and hands the sink a
\* record sequence as long as the violation sequence: flattening never
\* raises, whatever violations the engine produced
C14_FlattenOneRecordPerViolation ==
    /\ phase = "aborted" => raised # AttributeError
    /\ phase = "done" =>
          /\ Len(sink) = 1
          /\ Len(sink[1]) = Len(all_violations)
          /\ \A i \in DOMAIN all_violations :
                FlattenedFrom(sink[1][i], all_violations[i])

\* the phase changes a run may make
PhaseOrder ==
    {<<"retrieve", "evaluate">>, <<"evaluate", "done">>,
     <<"retrieve", "aborted">>, <<"evaluate", "aborted">>}

\* every identity of the inventory has been enumerated and resolved
RetrieveComplete ==
    /\ inventory = <<>>
    /\ ~cur.active
    /\ \A i \in DOMAIN enumerated :
          enumerated[i].user \in Keys(by_user) \cup skipped

\* C15: the phases follow one another in the order retrieve, evaluate,
\* output and none is re-entered; evaluation starts, and a chain is
\* evaluated, only when every identity has been enumerated and resolved;
\* the sink is written only when every pair has been evaluated, and at
\* most once
C15_PhasesInOrder ==
    [][/\ phase' # phase => <<phase, phase'>> \in PhaseOrder
       /\ phase' = "evaluate" => RetrieveComplete'
       /\ (eval_queue' # eval_queue \/ all_violations' # all_violations)
             => RetrieveComplete
       /\ sink' # sink =>
             /\ phase = "evaluate" /\ phase' = "done"
             /\ eval_queue = <<>>
             /\ sink = <<>>
       /\ Len(sink') <= 1]_vars

\* a run that resolved chains for both identities, evaluated them against
\* a rule book with rules, and wrote the sink
C15_Witness ==
    /\ phase = "done"
    /\ Len(sink) = 1
    /\ rule_book.resource_rules_map # <<>>
    /\ Keys(by_user) = Members
    /\ \A u \in Members : by_user[u] # <<>>

\* C16: a find_policy_violations call of the evaluation leaves the rule
\* book, its rules, the ancestry cache and the chains as they are; over the
\* run the rule book and the rule definitions never change, the cache
\* changes only during retrieval and the sink only in the output step
C16_EvaluateFrame ==
    [][/\ phase = "evaluate" =>
             /\ rule_book' = rule_book
             /\ _ancestries' = _ancestries
             /\ by_user' = by_user
       /\ rule_book' = rule_book
       /\ rules_file' = rules_file
       /\ _ancestries' # _ancestries => phase = "retrieve" /\ cur.active
       /\ sink' # sink => phase = "evaluate" /\ eval_queue = <<>>]_vars

\* the evaluation of one chain gave violations and another chain is still
\* to be evaluated
C16_Witness ==
    /\ phase = "evaluate"
    /\ all_violations # <<>>
    /\ eval_queue # <<>>
    /\ Len(rule_book.resource_rules_map) = 2

\* C17: a project id that is a key of the ancestry cache stays a key, and
\* its chain stays what it is: no later resolution, of any project or
\* identity, removes, replaces or modifies it
C17_CacheWriteOnce ==
    [][\A project_id \in Keys(_ancestries) :
          /\ project_id \in Keys(_ancestries')
          /\ _ancestries'[project_id] = _ancestries[project_id]]_vars

\* both projects are cached, and the resolution in progress has been handed
\* a chain that was handed to an earlier identity too
C17_Witness ==
    /\ Keys(_ancestries) = ProjectIds
    /\ cur.active
    /\ \E u \in Keys(by_user) : Range(by_user[u]) \cap Range(cur.ancestries) # {}

\* the place of an identity in the inventory's enumeration
Position(user) == CHOOSE i \in DOMAIN enumerated : enumerated[i].user = user

\* C18: the accumulated violations follow the order in which the inventory
\* enumerated the identities: a violation of an identity enumerated earlier
\* precedes every violation of an identity enumerated later
C18_ViolationsInEnumerationOrder ==
    \A i, j \in DOMAIN all_violations :
        i < j => Position(all_violations[i].member)
                    <= Position(all_violations[j].member)

-----------------------------------------------------------------------------
(* Concurrent _project_ancestries_by_user calls on one scanner.            *)
(* Each thread is at one statement of the loop over its project ids; the   *)
(* interpreter may switch threads between any two statements. The code     *)
(* reaches the list through self._ancestries[project_id] at every          *)
(* statement, so a list is held as the project id it is stored under.      *)

ThreadIds == {1, 2}

\* the project ids a concurrent call lists: project p1 is among them
ThreadListings ==
    {ids \in SeqsUpTo(ProjectIds, MaxProjects) : "p1" \in Range(ids)}

\* what a concurrent call neither reads nor writes
outside_call == <<engine_vars, phase, inventory, cur, by_user, eval_queue,
                  all_violations, sink, skipped, enumerated>>

Thread(user, project_ids) ==
    [pc |-> "check", user |-> user, pending |-> project_ids,
     response |-> <<>>, ancestries |-> <<>>]

\* if project_id not in self._ancestries.keys()
Check(t) ==
    /\ threads[t].pc = "check"
    /\ threads[t].pending # <<>>
    /\ threads' = [threads EXCEPT ![t].pc =
                      IF cached(_ancestries, Head(threads[t].pending))
                      THEN "collect" ELSE "insert"]
    /\ UNCHANGED <<_ancestries, lookups, outside_call>>

\* self._ancestries[project_id] = []
Insert(t) ==
    /\ threads[t].pc = "insert"
    /\ _ancestries' = Put(_ancestries, Head(threads[t].pending), <<>>)
    /\ threads' = [threads EXCEPT ![t].pc = "lookup"]
    /\ UNCHANGED <<lookups, outside_call>>

\* crm_client.get_project_ancestry(project_id)
Lookup(t) ==
    /\ threads[t].pc = "lookup"
    /\ lookups' = [lookups EXCEPT ![Head(threads[t].pending)] = @ + 1]
    /\ \E response \in AncestryResponses(Head(threads[t].pending)) :
          threads' = IF response.exc # NoError
                     THEN [threads EXCEPT ![t].pc = "raised"]
                     ELSE [threads EXCEPT ![t].pc = "append",
                                          ![t].response = response.ancestor]
    /\ UNCHANGED <<_ancestries, outside_call>>

\* one pass of the loop over the response:
\* self._ancestries[project_id].append(create_resource(...))
AppendResource(t) ==
    /\ threads[t].pc = "append"
    /\ LET project_id == Head(threads[t].pending)
           resource == Head(threads[t].response)
       IN  IF ~resource.wellformed
           THEN /\ threads' = [threads EXCEPT ![t].pc = "raised"]
                /\ UNCHANGED _ancestries
           ELSE /\ _ancestries' = [_ancestries EXCEPT ![project_id] =
                       Append(@, create_resource(resource.id, resource.type))]
                /\ threads' = [threads EXCEPT
                       ![t].response = Tail(@),
                       ![t].pc = IF Tail(threads[t].response) = <<>>
                                 THEN "collect" ELSE "append"]
    /\ UNCHANGED <<lookups, outside_call>>

\* ancestries.append(self._ancestries[project_id])
Collect(t) ==
    /\ threads[t].pc = "collect"
    /\ threads' = [threads EXCEPT ![t].pc = "check",
                                  ![t].pending = Tail(@),
                                  ![t].ancestries = Append(@, Head(threads[t].pending))]
    /\ UNCHANGED <<_ancestries, lookups, outside_call>>

\* return ancestries
Return(t) ==
    /\ threads[t].pc = "check"
    /\ threads[t].pending = <<>>
    /\ threads' = [threads EXCEPT ![t].pc = "returned"]
    /\ UNCHANGED <<_ancestries, lookups, outside_call>>

\* a constructed scanner, and one call per identity started on it
InitThreads ==
    /\ rules_file = EmptyDict
    /\ rule_book = RuleBook(<<>>)
    /\ applied = <<>>
    /\ call = "build_rule_book"
    /\ raised = NoError
    /\ result = <<>>
    /\ previous = NoPrevious
    /\ arg_member = "user1"
    /\ arg_chain = <<>>
    /\ arg_ancestor = NoneValue
    /\ arg_index = 0
    /\ phase = "retrieve"
    /\ inventory = <<>>
    /\ cur = NoResolution
    /\ _ancestries = <<>>
    /\ by_user = <<>>
    /\ eval_queue = <<>>
    /\ all_violations = <<>>
    /\ sink = <<>>
    /\ lookups = [p \in ProjectIds |-> 0]
    /\ skipped = {}
    /\ enumerated = <<>>
    /\ \E ids1, ids2 \in ThreadListings :
          threads = <<Thread("user1", ids1), Thread("user2", ids2)>>

NextThreads ==
    \E t \in ThreadIds :
        \/ Check(t)
        \/ Insert(t)
        \/ Lookup(t)
        \/ AppendResource(t)
        \/ Collect(t)
        \/ Return(t)

SpecThreads == InitThreads /\ [][NextThreads]_vars

\* the thread is between its check of the cache for the project and the
\* end of its population of the project's list
Populating(t, project_id) ==
    /\ threads[t].pc \in {"insert", "lookup", "append"}
    /\ Head(threads[t].pending) = project_id

\* C19: with two resolutions running concurrently on one scanner, the
\* check-then-insert on the cache is mutually exclusive per project:
\* get_project_ancestry is invoked at most once per project, at most one
\* thread is populating a project's list, and no thread has been handed a
\* list that another thread is still populating
C19_CheckThenInsertExclusive ==
    \A project_id \in ProjectIds :
        /\ lookups[project_id] <= 1
        /\ \A t1, t2 \in ThreadIds :
              (t1 # t2 /\ Populating(t1, project_id)) =>
                  /\ ~Populating(t2, project_id)
                  /\ threads[t2].pc # "collect"
                        \/ Head(threads[t2].pending) # project_id
                  /\ project_id \notin Range(threads[t2].ancestries)

-----------------------------------------------------------------------------
(* Termination of the run (specification SpecScanLive).                    *)

\* the run under a scheduler that lets it take its next step: every remote
\* call returns or raises
SpecScanLive == InitScan /\ [][NextScan]_vars /\ WF_vars(NextScan)

\* a remote call of the run raised an exception _retrieve does not recover
OtherFailure ==
    \E i \in DOMAIN enumerated :
        enumerated[i].failure \notin Recoverable \cup {NoError}

\* C20: the run ends, either completed with the violations handed to the
\* sink exactly once or failed with an exception raised and the sink
\* unwritten; and it fails only if a remote call raised something other
\* than the per-identity KeyError (no projects) and RefreshError
C20_RunEndsInOneOutcome ==
    /\ <>(phase \in {"done", "aborted"})
    /\ [](phase = "done" => Len(sink) = 1 /\ raised = NoError)
    /\ [](phase = "aborted" => sink = <<>> /\ raised # NoError)
    /\ [](phase = "aborted" => OtherFailure)

====
